---- MODULE Spec2Model ----
(***************************************************************************)
(* ProBrush OTP server.  The repository holds four versions of server.js:  *)
(*   "memory"  src/server.js:1-125    in-memory Map, SMTP notifier         *)
(*   "resend"  src/server.js:127-299  otps.json, Resend notifier           *)
(*   "resend2" src/server.js:301-448  otps.json, Resend notifier           *)
(*   "gmail"   src/unnamed/part_001   otps.json, SMTP notifier             *)
(* One behaviour of the model is one run of one of them (variant).         *)
(*                                                                         *)
(* Node runs one handler at a time: /verify-otp is synchronous and is one  *)
(* step; /send-otp is one step up to its await of the notifier (SendOtp)   *)
(* and one step when the notifier resolves or rejects (MailDone).          *)
(***************************************************************************)
EXTENDS Integers, Sequences, FiniteSets

\* ---------------------------------------------------------------- bounds
MaxTime == 2        \* Date.now() runs over 0..MaxTime
TtlTicks == 1       \* OTP_TTL_MINUTES, in clock ticks (configurable, positive)
RandSteps == 2      \* Math.random() takes the values r / RandSteps, r < RandSteps
MaxInFlight == 2    \* /send-otp requests awaiting the notifier at once

\* ----------------------------------------------------------- JS values
Variants == {"memory", "resend", "resend2", "gmail"}
FileVariants == {"resend", "resend2", "gmail"}

\* undefined, for a header or an environment variable that is not set
NoValue == "<undefined>"

Str(d) == [t |-> "string", v |-> d]
Num(d) == [t |-> "number", v |-> d]
Undef == [t |-> "undefined", v |-> <<>>]

\* !x for a request field
Falsy(x) == x.t = "undefined" \/ x.v = <<>> \/ (x.t = "number" /\ x.v = <<0>>)

\* Number.prototype.toString of a non-negative integer: its decimal digits
RECURSIVE ToString(_)
ToString(n) == IF n < 10 THEN <<n>> ELSE Append(ToString(n \div 10), n % 10)

\* a === b
StrictEq(a, b) == a.t = b.t /\ a.v = b.v

\* a == b for a string and a number (the number is converted to a string)
LooseEq(a, b) == a.v = b.v /\ a.t # "undefined" /\ b.t # "undefined"

Rands == 0 .. (RandSteps - 1)

GenerateOTP(r) == ToString((100000 * RandSteps + r * 900000) \div RandSteps)

\* process.env.OTP_TTL_MINUTES * 60 * 1000, in ticks
OTP_TTL == TtlTicks

\* ------------------------------------------------------------- records
\* an entry of the store: undefined, a stored { otp, expires }, or
\* Object.prototype (what obj["__proto__"] yields: truthy, no otp, no expires)
None == [kind |-> "none", otp |-> <<>>, expires |-> 0]
Rec(otp, expires) == [kind |-> "rec", otp |-> otp, expires |-> expires]
ObjectPrototype == [kind |-> "proto", otp |-> <<>>, expires |-> 0]

Uids == {"u1", "u2", "__proto__"}

EmptyStore == [k \in Uids |-> None]

\* record.otp === code / rec.otp === code
\* (OtpLooseEq: the comparison written with == instead)
OtpLooseEq(rec, code) == rec.kind = "rec" /\ LooseEq(Str(rec.otp), code)
OtpEq(rec, code) == rec.kind = "rec" /\ StrictEq(Str(rec.otp), code)

\* Date.now() > rec.expires (false when expires is undefined)
\* (PastExpirySwapped: the comparison with its operands exchanged)
PastExpirySwapped(t, rec) == rec.kind = "rec" /\ rec.expires > t
PastExpiry(t, rec) == rec.kind = "rec" /\ t > rec.expires

\* otpStore.get(uid) / otpStore.set(uid, rec) / otpStore.delete(uid)
MapGet(m, uid) == m[uid]
MapSet(m, uid, rec) == [m EXCEPT ![uid] = rec]
MapDelete(m, uid) == [m EXCEPT ![uid] = None]

\* otps[uid] on a plain object parsed from JSON: "__proto__" is the
\* prototype accessor, never an own property of what saveOTP builds
ObjGet(o, uid) == IF uid = "__proto__" THEN ObjectPrototype ELSE o[uid]
\* otps[uid] = rec, then JSON.stringify(otps): assigning "__proto__" sets the
\* prototype, which JSON.stringify does not write
ObjSet(o, uid, rec) == IF uid = "__proto__" THEN o ELSE [o EXCEPT ![uid] = rec]
ObjDelete(o, uid) == IF uid = "__proto__" THEN o ELSE [o EXCEPT ![uid] = None]

\* ---------------------------------------------------------------- state
VARIABLES
    variant,      \* which server.js is running
    apiKey,       \* process.env.OTP_API_KEY, or NoValue
    now,          \* Date.now()
    store,        \* otpStore (memory) / the content of otps.json (file variants)
    fileExists,   \* fs.existsSync(OTP_FILE)
    inflight,     \* /send-otp requests suspended at their await
    issued,       \* history: per uid, the Issues so far: how many (up to 2), the
                  \* latest code and its expiry time, the code before it
    verified,     \* history: per uid, the Verify calls since the last Issue ("no":
                  \* none, "invalid": some, none valid, "valid": one returned valid)
    undelivered,  \* history: per uid, the stored record is of an Issue whose delivery failed
    firstNeg,     \* history: the first negative /verify-otp response seen
    last          \* the step just taken: its request, its response, what it saw

vars == <<variant, apiKey, now, store, fileExists, inflight, issued, verified,
          undelivered, firstNeg, last>>

Slots == 1 .. MaxInFlight
Idle == [uid |-> "", otp |-> <<>>, expires |-> 0]
NotIssued == [n |-> 0, prev |-> <<>>, otp |-> <<>>, expires |-> 0]

ApiKeys == {NoValue, "k1"}
Headers == {NoValue, "k1", "k2"}

NoResp == [status |-> 0, success |-> "none", message |-> ""]
\* the handler is suspended at its await / ended without sending a response
Awaiting == [status |-> 0, success |-> "none", message |-> "<awaiting the notifier>"]
Unanswered == [status |-> 0, success |-> "none", message |-> "<no response>"]
Resp(status, success, message) ==
    [status |-> status, success |-> success, message |-> message]
\* a response whose body also has an 'error' field
ErrResp(status, success, message, error) ==
    [status |-> status, success |-> success, message |-> message, error |-> error]

Step(op, uid, code, hdr, resp, rec, readFault, writeFault, verifiedBefore) ==
    [op |-> op, uid |-> uid, code |-> code, hdr |-> hdr, resp |-> resp, rec |-> rec,
     readFault |-> readFault, writeFault |-> writeFault,
     verifiedBefore |-> verifiedBefore]

Init ==
    /\ variant \in Variants
    /\ apiKey \in ApiKeys
    /\ now = 0
    /\ store = EmptyStore
    /\ fileExists = FALSE
    /\ inflight = [s \in Slots |-> Idle]
    /\ issued = [k \in Uids |-> NotIssued]
    /\ verified = [k \in Uids |-> "no"]
    /\ undelivered = [k \in Uids |-> FALSE]
    /\ firstNeg = NoResp
    /\ last = Step("init", "", Undef, NoValue, NoResp, None, FALSE, FALSE, "no")

\* ------------------------------------------------------------ API key gate
\* "next" when the handler runs, else the rejection
ApiKeyMiddleware(received, expected) ==
    IF received # expected THEN Resp(401, "false", "Unauthorized") ELSE NoResp

RequireApiKey_resend(received, expected) ==
    IF expected = NoValue
    THEN Resp(500, "false", "Server misconfigured (OTP_API_KEY missing)")
    ELSE IF received = NoValue \/ received # expected
         THEN Resp(401, "false", "Unauthorized")
         ELSE NoResp

RequireApiKey_resend2(received, expected) ==
    IF received = NoValue \/ received # expected
    THEN Resp(401, "false", "Unauthorized")
    ELSE NoResp

RequireApiKey_gmail(received, expected) ==
    IF expected = NoValue
    THEN Resp(500, "false", "Server missing OTP_API_KEY")
    ELSE IF received = NoValue \/ received # expected
         THEN Resp(401, "false", "Unauthorized")
         ELSE NoResp

\* the rejection a request gets before its handler, NoResp when the handler runs
Gate(received) ==
    CASE variant = "memory" -> ApiKeyMiddleware(received, apiKey)
      [] variant = "resend" -> RequireApiKey_resend(received, apiKey)
      [] variant = "resend2" -> RequireApiKey_resend2(received, apiKey)
      [] variant = "gmail" -> RequireApiKey_gmail(received, apiKey)

\* ------------------------------------------------------------ file store
Outcomes == {"ok", "fault"}

\* a read of otps.json fails only when there is a file to read
ReadFault(rd) == variant \in FileVariants /\ fileExists /\ rd = "fault"

\* readOTPs(): {} when the file is missing, unreadable or unparsable
ReadOTPs(rd) == IF ~fileExists \/ rd = "fault" THEN EmptyStore ELSE store

\* saveOTP(uid, otp): what the file holds afterwards, and whether it threw
SaveOTP(uid, otp, rd, wr) ==
    LET otps == ObjSet(ReadOTPs(rd), uid, Rec(otp, now + OTP_TTL))
    IN  IF wr = "fault"
        THEN [threw |-> TRUE, store |-> store, exists |-> fileExists]
        ELSE [threw |-> FALSE, store |-> otps, exists |-> TRUE]

\* verifyOTP(uid, code) of each file variant: its result, whether it threw,
\* and what the file holds afterwards
\* (VerifyOTP_resendUnguarded: the purge write without its try/catch)
VerifyOTP_resendUnguarded(uid, code, rd, wr) ==
    LET otps == ReadOTPs(rd)
        rec == ObjGet(otps, uid)
    IN  IF rec.kind = "none"
        THEN [valid |-> FALSE, threw |-> FALSE, store |-> store]
        ELSE IF PastExpiry(now, rec)
             THEN [valid |-> FALSE, threw |-> wr = "fault",
                   store |-> IF wr = "fault" THEN store ELSE ObjDelete(otps, uid)]
             ELSE [valid |-> OtpEq(rec, code), threw |-> FALSE, store |-> store]
VerifyOTP_resend(uid, code, rd, wr) ==
    LET otps == ReadOTPs(rd)
        rec == ObjGet(otps, uid)
    IN  IF rec.kind = "none"
        THEN [valid |-> FALSE, threw |-> FALSE, store |-> store]
        ELSE IF PastExpiry(now, rec)
             THEN [valid |-> FALSE, threw |-> FALSE,
                   store |-> IF wr = "fault" THEN store ELSE ObjDelete(otps, uid)]
             ELSE [valid |-> OtpEq(rec, code), threw |-> FALSE, store |-> store]

VerifyOTP_resend2(uid, code, rd) ==
    IF ~fileExists
    THEN [valid |-> FALSE, threw |-> FALSE, store |-> store]
    ELSE IF rd = "fault"
         THEN [valid |-> FALSE, threw |-> TRUE, store |-> store]
         ELSE LET record == ObjGet(store, uid)
              IN  IF record.kind = "none" \/ PastExpiry(now, record)
                  THEN [valid |-> FALSE, threw |-> FALSE, store |-> store]
                  ELSE [valid |-> OtpEq(record, code), threw |-> FALSE, store |-> store]

VerifyOTP_gmail(uid, code, rd) ==
    LET rec == ObjGet(ReadOTPs(rd), uid)
    IN  IF rec.kind = "none" \/ PastExpiry(now, rec)
        THEN [valid |-> FALSE, threw |-> FALSE, store |-> store]
        ELSE [valid |-> OtpEq(rec, code), threw |-> FALSE, store |-> store]

\* -------------------------------------------------------- /send-otp handlers
Codes == {GenerateOTP(r) : r \in Rands}
Wrong == <<0, 0, 0, 0, 0, 0>>
Candidates ==
    {Str(c) : c \in Codes \cup {Wrong}} \cup {Num(GenerateOTP(0)), Undef}

\* a handler's run up to its response or its await
SendOut(resp, await, st, exists, otp, readFault) ==
    [resp |-> resp, await |-> await, store |-> st, exists |-> exists, otp |-> otp,
     readFault |-> readFault]

SendHandler_memory(uid, hasEmail, r) ==
    IF uid = "" \/ ~hasEmail
    THEN SendOut(Resp(400, "none", "uid and email required"),
                 FALSE, store, fileExists, <<>>, FALSE)
    ELSE LET otp == GenerateOTP(r)
             expires == now + OTP_TTL
         IN  SendOut(Awaiting, TRUE, MapSet(store, uid, Rec(otp, expires)),
                     fileExists, otp, FALSE)

SendHandler_resend(uid, hasEmail, r, rd, wr) ==
    IF uid = "" \/ ~hasEmail
    THEN SendOut(Resp(400, "false", "Missing uid or email"),
                 FALSE, store, fileExists, <<>>, FALSE)
    ELSE LET otp == GenerateOTP(r)
             saved == SaveOTP(uid, otp, rd, wr)
         IN  IF saved.threw
             THEN SendOut(ErrResp(500, "false", "Failed to send OTP",
                                  "Failed to persist OTP"),
                          FALSE, saved.store, saved.exists, otp, ReadFault(rd))
             ELSE SendOut(Awaiting, TRUE, saved.store, saved.exists, otp, ReadFault(rd))

SendHandler_resend2(uid, hasEmail, r, rd, wr) ==
    IF uid = "" \/ ~hasEmail
    THEN SendOut(Resp(400, "false", "Missing uid or email"),
                 FALSE, store, fileExists, <<>>, FALSE)
    ELSE LET otp == GenerateOTP(r)
             saved == SaveOTP(uid, otp, rd, wr)
         IN  IF saved.threw
             THEN SendOut(ErrResp(500, "false", "Failed to send OTP",
                                  "<message of the fs error>"),
                          FALSE, saved.store, saved.exists, otp, ReadFault(rd))
             ELSE SendOut(Awaiting, TRUE, saved.store, saved.exists, otp, ReadFault(rd))

\* saveOTP is called outside the try: when it throws, the async handler's promise
\* rejects.  Express 4 does not observe the promise: no response is sent.
SendHandler_gmail(uid, hasEmail, r, rd, wr) ==
    IF uid = "" \/ ~hasEmail
    THEN SendOut(Resp(400, "false", "uid and email required"),
                 FALSE, store, fileExists, <<>>, FALSE)
    ELSE LET otp == GenerateOTP(r)
             saved == SaveOTP(uid, otp, rd, wr)
         IN  IF saved.threw
             THEN SendOut(Unanswered, FALSE, saved.store, saved.exists, otp, ReadFault(rd))
             ELSE SendOut(Awaiting, TRUE, saved.store, saved.exists, otp, ReadFault(rd))

SendHandler(uid, hasEmail, r, rd, wr) ==
    CASE variant = "memory" -> SendHandler_memory(uid, hasEmail, r)
      [] variant = "resend" -> SendHandler_resend(uid, hasEmail, r, rd, wr)
      [] variant = "resend2" -> SendHandler_resend2(uid, hasEmail, r, rd, wr)
      [] variant = "gmail" -> SendHandler_gmail(uid, hasEmail, r, rd, wr)

\* What the installed Express makes of a handler whose promise rejected
\* (package.json is not part of the sources): version 4 leaves the request
\* unanswered, version 5 passes the error on and answers 500.
SendOutcomes(uid, hasEmail, r, rd, wr) ==
    LET h == SendHandler(uid, hasEmail, r, rd, wr)
    IN  IF h.resp = Unanswered
        THEN {h, [h EXCEPT !.resp = Resp(500, "none", "Internal Server Error")]}
        ELSE {h}

\* how the awaited notifier ends: it resolves; it rejects with a response of
\* the mail service (err.response.data); it rejects without one (err.message)
MailOutcomes == {"sent", "refused", "unreachable"}

\* err.response?.data || err.message
ErrorField(out) ==
    IF out = "refused" THEN "<err.response.data>" ELSE "<err.message>"

\* the response of the handler that generated otp, once the notifier ended
\* (MailResponseEchoing: a catch block that reports the code it failed to send)
MailResponseEchoing(otp, out) ==
    IF out = "sent"
    THEN Resp(200, "true", "OTP sent successfully")
    ELSE ErrResp(500, "false", "Failed to send OTP", otp)
MailResponse(otp, out) ==
    CASE variant = "memory" ->
            IF out = "sent" THEN Resp(200, "true", "OTP sent successfully")
                            ELSE Resp(500, "none", "Failed to send OTP")
      [] variant \in {"resend", "resend2"} ->
            IF out = "sent" THEN Resp(200, "true", "OTP sent successfully")
                            ELSE ErrResp(500, "false", "Failed to send OTP",
                                         ErrorField(out))
      [] variant = "gmail" ->
            IF out = "sent" THEN Resp(200, "true", "OTP sent successfully (Gmail)")
                            ELSE Resp(500, "false", "Failed to send OTP")

\* the store once the notifier's outcome was handled: neither branch touches it
\* (StoreRolledBack: a catch block that withdraws the record)
StoreRolledBack(uid, ok) == IF ok THEN store ELSE [store EXCEPT ![uid] = None]
StoreAfterMail(uid, ok) == store

\* ------------------------------------------------------ /verify-otp handlers
VerifyOut(resp, st, valid, readFault) ==
    [resp |-> resp, store |-> st, valid |-> valid, readFault |-> readFault]

VerifyHandler_memory(uid, code) ==
    IF uid = "" \/ Falsy(code)
    THEN VerifyOut(Resp(400, "none", "uid and code required"), store, FALSE, FALSE)
    ELSE LET record == MapGet(store, uid)
         IN  IF record.kind = "none"
             THEN VerifyOut(Resp(400, "false", "No OTP found for this UID"),
                            store, FALSE, FALSE)
             ELSE IF PastExpiry(now, record)
             THEN VerifyOut(Resp(400, "false", "OTP expired"), store, FALSE, FALSE)
             ELSE IF OtpEq(record, code)
             THEN VerifyOut(Resp(200, "true", "OTP verified successfully"),
                            MapDelete(store, uid), TRUE, FALSE)
             ELSE VerifyOut(Resp(400, "false", "Invalid OTP"), store, FALSE, FALSE)

VerifyReply(valid) ==
    Resp(200, IF valid THEN "true" ELSE "false",
         IF valid THEN "OTP verified" ELSE "Invalid or expired OTP")

\* The routes call verifyOTP outside any try: an exception of verifyOTP leaves
\* the synchronous handler and Express answers 500.
VerifyAnswer(v, rd) ==
    IF v.threw
    THEN VerifyOut(Resp(500, "none", "Internal Server Error"),
                   v.store, FALSE, ReadFault(rd))
    ELSE VerifyOut(VerifyReply(v.valid), v.store, v.valid, ReadFault(rd))

VerifyHandler_resend(uid, code, rd, wr) ==
    IF uid = "" \/ Falsy(code)
    THEN VerifyOut(Resp(400, "false", "Missing uid or code"), store, FALSE, FALSE)
    ELSE VerifyAnswer(VerifyOTP_resend(uid, code, rd, wr), rd)

VerifyHandler_resend2(uid, code, rd) ==
    IF uid = "" \/ Falsy(code)
    THEN VerifyOut(Resp(400, "false", "Missing uid or code"), store, FALSE, FALSE)
    ELSE VerifyAnswer(VerifyOTP_resend2(uid, code, rd), rd)

VerifyHandler_gmail(uid, code, rd) ==
    IF uid = "" \/ Falsy(code)
    THEN VerifyOut(Resp(400, "false", "uid and code required"), store, FALSE, FALSE)
    ELSE VerifyAnswer(VerifyOTP_gmail(uid, code, rd), rd)

VerifyHandler(uid, code, rd, wr) ==
    CASE variant = "memory" -> VerifyHandler_memory(uid, code)
      [] variant = "resend" -> VerifyHandler_resend(uid, code, rd, wr)
      [] variant = "resend2" -> VerifyHandler_resend2(uid, code, rd)
      [] variant = "gmail" -> VerifyHandler_gmail(uid, code, rd)

\* ----------------------------------------------------------------- actions
\* what the store holds for the uid of a request, before the request runs
PreRec(uid) == IF uid \in Uids THEN store[uid] ELSE None
VerifiedBefore(uid) == IF uid \in Uids THEN verified[uid] ELSE "no"

\* the header is present, OTP_API_KEY is configured, and they are equal
Authorised(hdr) == hdr # NoValue /\ apiKey # NoValue /\ hdr = apiKey

\* which case of Verify a well-formed, authorised request with a readable store is
VerifyCase(hdr, uid, code, readFault, rec, t) ==
    IF ~Authorised(hdr) \/ uid = "" \/ Falsy(code) \/ readFault THEN "other"
    ELSE IF rec.kind = "none" THEN "norecord"
    ELSE IF t > rec.expires THEN "expired"
    ELSE IF code # Str(rec.otp) THEN "mismatch"
    ELSE "match"

NegativeCases == {"norecord", "expired", "mismatch"}

\* a file operation can fail only in a request that performs it: the handler
\* runs, its fields are present, and (for a read) there is a file to read
CanWriteFault(hdr, uid, present) ==
    variant \in FileVariants /\ Gate(hdr) = NoResp /\ uid # "" /\ present
CanReadFault(hdr, uid, present) == CanWriteFault(hdr, uid, present) /\ fileExists

\* POST /send-otp, up to its response or its await of the notifier; the request
\* waits in slot s.  T: the uids whose history is recorded.
SendOtp(s, hdr, uid, hasEmail, r, rd, wr, T) ==
    /\ inflight[s] = Idle
    /\ \A t \in 1 .. (s - 1) : inflight[t] # Idle
    /\ rd = "fault" => CanReadFault(hdr, uid, hasEmail)
    /\ wr = "fault" => CanWriteFault(hdr, uid, hasEmail)
    /\ LET g == Gate(hdr)
           hs == IF g # NoResp
                 THEN {SendOut(g, FALSE, store, fileExists, <<>>, FALSE)}
                 ELSE SendOutcomes(uid, hasEmail, r, rd, wr)
       IN  \E h \in hs :
           /\ store' = h.store
           /\ fileExists' = h.exists
           /\ inflight' =
                IF h.await
                THEN [inflight EXCEPT ![s] =
                        [uid |-> uid, otp |-> h.otp, expires |-> now + OTP_TTL]]
                ELSE inflight
           /\ issued' =
                IF h.await /\ uid \in T
                THEN [issued EXCEPT ![uid] =
                        [n |-> IF @.n = 0 THEN 1 ELSE 2, prev |-> @.otp,
                         otp |-> h.otp, expires |-> now + OTP_TTL]]
                ELSE issued
           /\ verified' =
                IF h.await /\ uid \in T THEN [verified EXCEPT ![uid] = "no"] ELSE verified
           /\ undelivered' =
                IF h.await /\ uid \in T
                THEN [undelivered EXCEPT ![uid] = FALSE] ELSE undelivered
           /\ last' = Step("send", uid, Undef, hdr, h.resp, PreRec(uid), h.readFault,
                           wr = "fault", VerifiedBefore(uid))
    /\ UNCHANGED <<variant, apiKey, now, firstNeg>>

\* the notifier resolves or rejects: the rest of the /send-otp handler
MailDone(s, out, T) ==
    /\ inflight[s] # Idle
    /\ LET req == inflight[s]
           ok == out = "sent"
           after == StoreAfterMail(req.uid, ok)
       IN  /\ store' = after
           /\ inflight' = [inflight EXCEPT ![s] = Idle]
           /\ undelivered' =
                IF ~ok /\ req.uid \in T /\ store[req.uid] = Rec(req.otp, req.expires)
                THEN [undelivered EXCEPT ![req.uid] = TRUE]
                ELSE undelivered
           /\ last' = Step(IF ok THEN "mail-ok" ELSE "mail-failed", req.uid, Str(req.otp),
                           NoValue, MailResponse(req.otp, out), store[req.uid], FALSE, FALSE,
                           VerifiedBefore(req.uid))
    /\ UNCHANGED <<variant, apiKey, now, fileExists, issued, verified, firstNeg>>

\* POST /verify-otp
VerifyOtp(hdr, uid, code, rd, wr, T) ==
    /\ rd = "fault" => CanReadFault(hdr, uid, ~Falsy(code))
    /\ wr = "fault" =>
          /\ variant = "resend" /\ rd = "ok"
          /\ CanReadFault(hdr, uid, ~Falsy(code))
          /\ PastExpiry(now, PreRec(uid))
    /\ LET g == Gate(hdr)
           h == IF g # NoResp
                THEN VerifyOut(g, store, FALSE, FALSE)
                ELSE VerifyHandler(uid, code, rd, wr)
           case == VerifyCase(hdr, uid, code, h.readFault, PreRec(uid), now)
       IN  /\ store' = h.store
           /\ verified' =
                IF g = NoResp /\ uid \in T /\ ~Falsy(code)
                THEN [verified EXCEPT ![uid] =
                        IF h.valid \/ @ = "valid" THEN "valid" ELSE "invalid"]
                ELSE verified
           /\ firstNeg' =
                IF firstNeg = NoResp /\ uid \in T /\ case \in NegativeCases
                THEN h.resp ELSE firstNeg
           /\ last' = Step("verify", uid, code, hdr, h.resp, PreRec(uid), h.readFault,
                           wr = "fault", VerifiedBefore(uid))
    /\ UNCHANGED <<variant, apiKey, now, fileExists, inflight, issued, undelivered>>

\* Date.now() advances
Tick ==
    /\ now < MaxTime
    /\ now' = now + 1
    /\ last' = Step("tick", "", Undef, NoValue, NoResp, None, FALSE, FALSE, "no")
    /\ UNCHANGED <<variant, apiKey, store, fileExists, inflight, issued, verified,
                   undelivered, firstNeg>>

\* --------------------------------------------------------- specifications
\* The requests a specification sends: uids U, x-api-key headers H, random
\* draws R.  A request the gate is meant to stop, or one that fails
\* validation, is sent with one body: no handler reads the rest of it.
SendRequests(U, H, R) ==
    {q \in [hdr : H, uid : U \cup {""}, hasEmail : BOOLEAN, r : R] :
        /\ (q.hdr # "k1" \/ ~q.hasEmail) => q.uid = "u1"
        /\ (q.hdr # "k1" \/ q.uid = "" \/ ~q.hasEmail) => q.r = 0
        /\ q.uid = "" => q.hasEmail}

VerifyRequests(U, H, C) ==
    {q \in [hdr : H, uid : U \cup {""}, code : C] :
        /\ (q.hdr # "k1" \/ Falsy(q.code)) => q.uid = "u1"
        /\ (q.hdr # "k1" \/ q.uid = "") => q.code = Str(GenerateOTP(0))}

NextOf(SR, VR, RO, WO, S, T) ==
    \/ \E s \in S, q \in SR, rd \in RO, wr \in WO :
          SendOtp(s, q.hdr, q.uid, q.hasEmail, q.r, rd, wr, T)
    \/ \E s \in S, out \in MailOutcomes : MailDone(s, out, T)
    \/ \E q \in VR, rd \in RO, wr \in WO :
          VerifyOtp(q.hdr, q.uid, q.code, rd, wr, T)
    \/ Tick

\* one uid's lifecycle, with storage faults
LifecycleSends == SendRequests({"u1"}, {"k1"}, Rands)
LifecycleVerifies == VerifyRequests({"u1"}, {"k1"}, Candidates)
Next == NextOf(LifecycleSends, LifecycleVerifies, Outcomes, Outcomes, {1}, {"u1"})
Spec == Init /\ [][Next]_vars

\* two uids, one generated code, with read faults
PairCandidates == {Str(GenerateOTP(0)), Str(Wrong)}
PairSends == SendRequests({"u1", "u2"}, {"k1"}, {0})
PairVerifies == VerifyRequests({"u1", "u2"}, {"k1"}, PairCandidates)
NextPair == NextOf(PairSends, PairVerifies, Outcomes, {"ok"}, {1}, {})
SpecPair == Init /\ [][NextPair]_vars

\* the uid "__proto__" beside an ordinary one, no storage faults
ProtoSends == SendRequests({"u1", "__proto__"}, {"k1"}, {0})
ProtoVerifies == VerifyRequests({"u1", "__proto__"}, {"k1"}, PairCandidates)
NextProto == NextOf(ProtoSends, ProtoVerifies, {"ok"}, {"ok"}, {1}, {"__proto__"})
SpecProto == Init /\ [][NextProto]_vars

\* the uid "__proto__" beside an ordinary one, with read faults
NextProtoFaults ==
    NextOf(ProtoSends, ProtoVerifies, Outcomes, {"ok"}, {1}, {"__proto__"})
SpecProtoFaults == Init /\ [][NextProtoFaults]_vars

\* every x-api-key header against every OTP_API_KEY, no storage faults
GateSends == SendRequests({"u1"}, Headers, {0})
GateVerifies == VerifyRequests({"u1"}, Headers, PairCandidates)
NextGate == NextOf(GateSends, GateVerifies, {"ok"}, {"ok"}, {1}, {})
SpecGate == Init /\ [][NextGate]_vars

\* two /send-otp requests in flight at once, two uids, with read faults
NextConcurrent == NextOf(PairSends, PairVerifies, Outcomes, {"ok"}, Slots, {})
SpecConcurrent == Init /\ [][NextConcurrent]_vars

\* Spec with a notifier that ends every call: each awaited sendMail /
\* axios.post (timeout 15000) eventually resolves or rejects
NotifierEnds == \A s \in Slots : WF_vars(\E out \in MailOutcomes : MailDone(s, out, {"u1"}))
SpecLive == Init /\ [][Next]_vars /\ NotifierEnds

\* ------------------------------------------------------------------ claims
IsVerify == last.op = "verify"
Valid == last.resp.status = 200 /\ last.resp.success = "true"
\* the last request was authorised and carried both fields
Handled == Authorised(last.hdr) /\ last.uid # "" /\ ~Falsy(last.code)
Readable == ~last.readFault
\* the candidate of the last request is exactly the code of rec
Matches(rec) == last.code = Str(rec.otp)
Expired(t, rec) == rec.kind = "rec" /\ t > rec.expires
Live(t, rec) == rec.kind = "rec" /\ t <= rec.expires

\* C1 (single use): once a Verify(uid, code) returned valid, no later Verify for
\* that uid returns valid unless an Issue for the uid came in between.
C1_SingleUse == ~(IsVerify /\ Valid /\ last.verifiedBefore = "valid")

\* C2 (overwrite): once a second Issue for a uid is stored, the store holds the
\* second record for that uid, and a Verify with the first code is invalid.
C2_Overwrite ==
    /\ (last.op = "send" /\ last.resp = Awaiting /\ issued[last.uid].n = 2)
          => store[last.uid] = Rec(issued[last.uid].otp, issued[last.uid].expires)
    /\ (IsVerify /\ last.uid \in Uids /\ issued[last.uid].n = 2
          /\ last.code = Str(issued[last.uid].prev))
          => ~Valid

\* C3 (expiry): a Verify at now > expiresAt is invalid, whatever the candidate;
\* so is a Verify that finds no record; and an expired record stays expired, or
\* is removed, until an Issue for its uid replaces it (the clock never goes back).
C3_Expiry ==
    /\ [](IsVerify /\ (last.rec.kind = "none" \/ Expired(now, last.rec)) => ~Valid)
    /\ [][\A k \in Uids :
            (Expired(now, store[k]) /\ ~(last'.op = "send" /\ last'.uid = k))
               => (store'[k] = None \/ Expired(now', store'[k]))]_vars

C3_Witness ==
    IsVerify /\ Handled /\ Readable /\ Expired(now, last.rec) /\ Matches(last.rec)
    /\ ~Valid

\* C4 (freshness): the first Verify for a uid after an Issue for it, with the
\* code that Issue generated and no later than its expiry, returns valid.
C4_Freshness ==
    (IsVerify /\ Handled /\ Readable /\ issued[last.uid].n > 0
       /\ last.verifiedBefore = "no"
       /\ last.code = Str(issued[last.uid].otp) /\ now <= issued[last.uid].expires)
       => Valid

\* C5 (acceptance): Verify returns valid exactly when a record exists for the
\* uid, now <= expiresAt, the candidate is the stored code, and no earlier
\* Verify consumed the record.
C5_Acceptance ==
    IsVerify =>
       (Valid <=> (Handled /\ Readable /\ Live(now, last.rec) /\ Matches(last.rec)
                   /\ last.verifiedBefore # "valid"))

\* C6 (isolation): no step of a request for one uid changes what the store
\* holds for another uid.
C6_Isolation ==
    [][\A k \in Uids :
         (last'.op \in {"send", "verify", "mail-ok", "mail-failed"} /\ last'.uid # k)
            => store'[k] = store[k]]_vars

\* C7 (mismatch): a Verify whose candidate is not the stored, unexpired code is
\* invalid and leaves the record as it was; after only invalid Verify calls, a
\* Verify with the stored code, no later than its expiry, is valid.
C7_Mismatch ==
    /\ (IsVerify /\ Handled /\ Live(now, last.rec) /\ ~Matches(last.rec))
          => (~Valid /\ store[last.uid] = last.rec)
    /\ (IsVerify /\ Handled /\ Readable /\ last.verifiedBefore = "invalid"
          /\ Live(now, last.rec) /\ Matches(last.rec))
          => Valid

C7_Witness == IsVerify /\ Handled /\ Valid /\ last.verifiedBefore = "invalid"

\* C8 (delivery failure): when the notifier fails, the request is answered 500
\* without success and the store is left as it was; the record of an Issue whose
\* delivery failed validates its code until its expiry.
C8_DeliveryFailure ==
    /\ [][last'.op = "mail-failed"
            => (store' = store /\ last'.resp.status = 500
                /\ last'.resp.success # "true")]_vars
    /\ []((IsVerify /\ Handled /\ Readable /\ undelivered[last.uid]
             /\ Live(now, last.rec) /\ Matches(last.rec))
            => Valid)

C8_Witness ==
    IsVerify /\ Handled /\ undelivered[last.uid] /\ Valid /\ Matches(last.rec)

\* C9 (indistinguishable negatives): every Verify that finds no record, an
\* expired record or a wrong code sends the same response (status and body) as
\* the first such Verify did.
C9_Indistinguishable ==
    (IsVerify
       /\ VerifyCase(last.hdr, last.uid, last.code, last.readFault, last.rec, now)
             \in NegativeCases)
       => last.resp = firstNeg

\* C10 (API-key gate): a request whose x-api-key header is missing, differs
\* from OTP_API_KEY, or meets a server without OTP_API_KEY is rejected by the
\* gate and leaves the store unchanged.
Rejections ==
    {Resp(401, "false", "Unauthorized"),
     Resp(500, "false", "Server misconfigured (OTP_API_KEY missing)"),
     Resp(500, "false", "Server missing OTP_API_KEY")}

C10_ApiKeyGate ==
    [][(last'.op \in {"send", "verify"} /\ ~Authorised(last'.hdr))
          => (store' = store /\ last'.resp \in Rejections)]_vars

\* a response that reports an error / that reports success
IsError(resp) == resp.status >= 400 /\ resp.success # "true"
IsSuccess(resp) == resp.status = 200 /\ resp.success = "true"
IsSend == last.op = "send"

\* C11 (persistence failure): a /send-otp whose write of the record fails is
\* answered with an error, attempts no delivery and changes nothing in the
\* store; a /send-otp that goes on to delivery has stored its record, so a
\* success response implies the record was stored by that request.
C11_PersistFailure ==
    [][/\ (last'.op = "send" /\ last'.writeFault)
            => (IsError(last'.resp) /\ inflight' = inflight /\ store' = store)
       /\ (last'.op = "send" /\ last'.resp = Awaiting)
            => \E s \in Slots :
                  /\ inflight[s] = Idle /\ inflight'[s].uid = last'.uid
                  /\ store'[last'.uid] = Rec(inflight'[s].otp, inflight'[s].expires)
       /\ IsSuccess(last'.resp) => last'.op \in {"mail-ok", "verify"}]_vars

\* C12 (read fault surfaced): a Verify that could not read or parse an existing
\* otps.json answers with a server error, never with the answer it gives for
\* a missing, expired or wrong code.
NormalNegatives ==
    {Resp(200, "false", "Invalid or expired OTP"),
     Resp(400, "false", "No OTP found for this UID"),
     Resp(400, "false", "OTP expired"),
     Resp(400, "false", "Invalid OTP")}

C12_ReadFaultSurfaced ==
    (IsVerify /\ Handled /\ last.readFault)
       => (last.resp.status >= 500 /\ last.resp \notin NormalNegatives)

\* C13 (negatives are not errors): with a readable store and both fields
\* present, a Verify that finds no record, an expired record or a wrong code
\* answers with the normal negative result, never with a server error; so it
\* does when there is no otps.json yet and when the purge of the expired
\* record cannot be written.
C13_NeverRaises ==
    (IsVerify
       /\ VerifyCase(last.hdr, last.uid, last.code, last.readFault, last.rec, now)
             \in NegativeCases)
       => (last.resp \in NormalNegatives /\ last.resp.status < 500)

C13_Witness ==
    /\ IsVerify /\ Handled /\ Readable /\ last.writeFault
    /\ Expired(now, last.rec)
    /\ last.resp \in NormalNegatives

\* C14 (no echo): the response of /send-otp is the same whichever code the
\* request generated: the handler's own response (validation, persistence
\* failure, suspension) and the response after the notifier ended, 'error'
\* field included, do not depend on the code; the response actually sent
\* after the notifier ended is the one every other code would have got.
C14_NoEcho ==
    /\ \A out \in MailOutcomes : \A c1, c2 \in Codes :
          MailResponse(c1, out) = MailResponse(c2, out)
    /\ \A q \in LifecycleSends : \A r2 \in Rands : \A rd, wr \in Outcomes :
          SendHandler(q.uid, q.hasEmail, q.r, rd, wr).resp
             = SendHandler(q.uid, q.hasEmail, r2, rd, wr).resp
    /\ last.op \in {"mail-ok", "mail-failed"}
          => \A c \in Codes : \E out \in MailOutcomes : last.resp = MailResponse(c, out)

C14_Witness ==
    /\ last.op = "mail-failed" /\ variant \in {"resend", "resend2"}
    /\ last.resp.error = ErrorField("refused")
    /\ last.code # Str(GenerateOTP(0))

\* C15 (code space): every code an Issue stores is a string of exactly six
\* decimal digits, and the codes an Issue can draw cover the six-digit strings
\* from 000000 on: in every state some draw gives a code below 100000, one
\* with a leading zero.
C15_CodeSpace ==
    /\ \A k \in Uids : store[k].kind = "rec" =>
          /\ Len(store[k].otp) = 6
          /\ \A i \in 1 .. 6 : store[k].otp[i] \in 0 .. 9
    /\ \E r \in Rands : SendHandler("u1", TRUE, r, "ok", "ok").otp[1] = 0

\* the uid of the last request has an Issue suspended at its await in slot s
Suspended(s) == inflight[s] # Idle /\ inflight[s].uid = last.uid

\* C16 (visible before delivery): a Verify handled while an Issue for its uid
\* awaits the notifier sees the record that Issue stored: it accepts the new
\* code (unless an earlier Verify consumed the record) and rejects the code of
\* the Issue before it.
C16_VisibleBeforeDelivery ==
    \A s \in Slots :
       (IsVerify /\ Handled /\ Readable /\ Suspended(s)) =>
          /\ (last.code = Str(inflight[s].otp) /\ now <= inflight[s].expires
                /\ last.verifiedBefore # "valid")
                => Valid
          /\ (issued[last.uid].n = 2 /\ last.code = Str(issued[last.uid].prev))
                => ~Valid

\* C17 (concurrent Issues, different uids): when a /send-otp stores its record
\* while a /send-otp for another uid awaits the notifier, the store then holds
\* the new record with the code of its own request, and the record of the
\* other uid is the one it held before: no update is lost.
C17_ConcurrentIssues ==
    [][\A s, t \in Slots :
         (/\ last'.op = "send" /\ last'.resp = Awaiting
          /\ inflight[s] = Idle /\ inflight'[s] # Idle
          /\ t # s /\ inflight[t] # Idle /\ inflight[t].uid # inflight'[s].uid)
            => /\ store'[inflight'[s].uid] = Rec(inflight'[s].otp, inflight'[s].expires)
               /\ store'[inflight[t].uid] = store[inflight[t].uid]]_vars

\* C18 (lifecycle): whatever the uid held before (nothing, a live record, a
\* consumed one, an expired one), once an Issue for it went on to delivery the
\* store holds a live record for the uid with the code of that Issue and
\* expiry = issue time + ttl, and that code validates until then in the first
\* Verify after the Issue.
C18_Lifecycle ==
    /\ (IsSend /\ last.resp = Awaiting /\ issued[last.uid].n > 0)
          => /\ Live(now, store[last.uid])
             /\ store[last.uid] = Rec(issued[last.uid].otp, now + OTP_TTL)
    /\ (IsVerify /\ Handled /\ Readable /\ issued[last.uid].n > 0
          /\ last.verifiedBefore = "no"
          /\ last.code = Str(issued[last.uid].otp) /\ now <= issued[last.uid].expires)
          => (Valid /\ Live(now, last.rec))

\* C19 (exactly one response): an authorised /send-otp with both fields either
\* answers with an error at once or is suspended at the notifier, and a
\* suspended request is eventually answered, once: with success exactly when
\* the notifier resolved, with an error when it rejected.  No request is left
\* without a response.
C19_OneResponse ==
    /\ [][(last'.op = "send" /\ Authorised(last'.hdr) /\ last'.resp.status # 400)
            => \/ IsError(last'.resp) /\ inflight' = inflight
               \/ /\ last'.resp = Awaiting
                  /\ \E s \in Slots :
                        /\ inflight[s] = Idle /\ inflight'[s].uid = last'.uid
                        /\ \A t \in Slots \ {s} : inflight'[t] = inflight[t]]_vars
    /\ [][last'.op \in {"mail-ok", "mail-failed"}
            => /\ \E s \in Slots :
                     /\ inflight[s] # Idle /\ inflight'[s] = Idle
                     /\ \A t \in Slots \ {s} : inflight'[t] = inflight[t]
               /\ IF last'.op = "mail-ok" THEN IsSuccess(last'.resp)
                                          ELSE IsError(last'.resp)]_vars
    /\ \A s \in Slots : (inflight[s] # Idle) ~> (inflight[s] = Idle)

\* C20 (unreadable file at Issue): a /send-otp that cannot read or parse the
\* existing otps.json goes on to delivery, and the file then holds exactly one
\* record: the new one for the uid of the request.
C20_UnreadableIsEmpty ==
    [][(last'.op = "send" /\ last'.readFault /\ ~last'.writeFault)
          => /\ last'.resp = Awaiting
             /\ \E s \in Slots :
                   /\ inflight[s] = Idle /\ inflight'[s].uid = last'.uid
                   /\ store' = [k \in Uids |->
                                  IF k = last'.uid
                                  THEN Rec(inflight'[s].otp, now + OTP_TTL)
                                  ELSE None]]_vars

====
